---- MODULE Spec2Model ----
(***************************************************************************)
(* A model of the study-quiz backend: src/main.py (the FastAPI handlers    *)
(* ingest and generate_quiz over the chunks table) and src/rag.py (the     *)
(* chunk_text window splitter).                                            *)
(*                                                                         *)
(* Text is a sequence of one-character strings, so that find, rfind, the   *)
(* regular expression, slicing and json.loads work on characters as the    *)
(* Python code does.                                                       *)
(***************************************************************************)
EXTENDS Integers, Sequences, FiniteSets, TLC

VARIABLES
    chunks,   \* the committed rows of the chunks table, in insertion order
    ing,      \* the ingest requests in flight, one per request slot
    qz,       \* the generate_quiz requests in flight, one per request slot
    ct,       \* one call of rag.chunk_text: its locals and its position
    vd        \* one pass of generate_quiz's output handling over a completion

vars == <<chunks, ing, qz, ct, vd>>

(***************************************************************************)
(* Bounds of the model.                                                    *)
(***************************************************************************)
MaxTextLen == 3       \* longest text handed to chunk_text on its own
MaxSize == 2          \* largest size / overlap tried for chunk_text
MaxChunks == 3        \* windows appended before a chunk_text run is cut off
MaxQuestions == 2     \* most quiz items in a generated completion body
MaxNumQuestions == 2  \* largest num_questions of a quiz request
MaxIngest == 2        \* ingest requests
MaxQuiz == 1          \* generate_quiz requests
MaxDocs == 2          \* documents in one ingest request

(***************************************************************************)
(* Python helpers.                                                         *)
(***************************************************************************)
Min(a, b) == IF a < b THEN a ELSE b

Max(a, b) == IF a > b THEN a ELSE b

None == <<>>

Some(x) == <<x>>

\* The characters \s matches among the ones the model uses.
IsSpace(c) == c \in {" ", "\n", "\t"}

\* s[a:b] with Python's treatment of negative and out-of-range indices.
PyIndex(n, x) == IF x < 0 THEN Max(n + x, 0) ELSE Min(x, n)

PySlice(s, a, b) == SubSeq(s, PyIndex(Len(s), a) + 1, PyIndex(Len(s), b))

\* s[a:]
PyFrom(s, a) == SubSeq(s, PyIndex(Len(s), a) + 1, Len(s))

\* s.find(c) and s.rfind(c) for a single character, -1 when absent (0-based).
Find(s, c) ==
    LET hits == {i \in 1..Len(s) : s[i] = c}
    IN IF hits = {} THEN -1 ELSE (CHOOSE i \in hits : \A j \in hits : i <= j) - 1

RFind(s, c) ==
    LET hits == {i \in 1..Len(s) : s[i] = c}
    IN IF hits = {} THEN -1 ELSE (CHOOSE i \in hits : \A j \in hits : i >= j) - 1

(***************************************************************************)
(* rag.chunk_text                                                          *)
(***************************************************************************)
KeepMark(m) == m.keep

\* re.sub(r"\s+", " ", text): every run of whitespace becomes one space.
CollapseSpaces(text) ==
    LET marked == [i \in 1..Len(text) |->
                     [c    |-> IF IsSpace(text[i]) THEN " " ELSE text[i],
                      keep |-> \/ ~IsSpace(text[i])
                               \/ i = 1
                               \/ ~IsSpace(text[i - 1])]]
        kept == SelectSeq(marked, KeepMark)
    IN [i \in 1..Len(kept) |-> kept[i].c]

\* str.strip() of a text whose whitespace runs were collapsed.
Strip(text) ==
    LET n == Len(text)
        lo == IF n > 0 /\ IsSpace(text[1]) THEN 2 ELSE 1
        hi == IF n > 0 /\ IsSpace(text[n]) THEN n - 1 ELSE n
    IN SubSeq(text, lo, hi)

Normalize(text) == Strip(CollapseSpaces(text))

\* while i < len(text)
LoopCond(text, i) == i < Len(text)

\* chunks.append(text[i:i+size])
AppendWindow(cs, text, size, i) == Append(cs, PySlice(text, i, i + size))

\* i += size - overlap
Advance(i, size, overlap) == i + (size - overlap)

RECURSIVE ChunkLoop(_, _, _, _, _)
ChunkLoop(text, size, overlap, i, cs) ==
    IF LoopCond(text, i)
    THEN ChunkLoop(text, size, overlap, Advance(i, size, overlap),
                   AppendWindow(cs, text, size, i))
    ELSE cs

\* chunk_text as a function; only evaluated where the loop ends (overlap < size).
chunk_text(text, size, overlap) == ChunkLoop(Normalize(text), size, overlap, 0, <<>>)

\* The sequences over S of length at most n.
RECURSIVE SeqsUpTo(_, _)
SeqsUpTo(S, n) ==
    IF n = 0 THEN {<<>>}
    ELSE LET shorter == SeqsUpTo(S, n - 1)
         IN shorter \cup {Append(s, c) : s \in {t \in shorter : Len(t) = n - 1}, c \in S}

\* One call of chunk_text, a step at a time: the texts and parameters tried.
ChunkTexts == SeqsUpTo({"a", " "}, MaxTextLen)

CtIdle == [pc |-> "idle", text |-> <<>>, size |-> 1, overlap |-> 0, i |-> 0, chunks |-> <<>>]

CtCalls ==
    {[pc |-> "call", text |-> t, size |-> s, overlap |-> o, i |-> 0, chunks |-> <<>>] :
        t \in ChunkTexts, s \in 1..MaxSize, o \in 0..MaxSize}

CtNormalize ==
    /\ ct.pc = "call"
    /\ ct' = [ct EXCEPT !.pc = "loop", !.text = Normalize(ct.text), !.i = 0, !.chunks = <<>>]
    /\ UNCHANGED <<chunks, ing, qz, vd>>

CtAppend ==
    /\ ct.pc = "loop"
    /\ LoopCond(ct.text, ct.i)
    /\ Len(ct.chunks) < MaxChunks
    /\ ct' = [ct EXCEPT !.chunks = AppendWindow(ct.chunks, ct.text, ct.size, ct.i),
                        !.i = Advance(ct.i, ct.size, ct.overlap)]
    /\ UNCHANGED <<chunks, ing, qz, vd>>

CtReturn ==
    /\ ct.pc = "loop"
    /\ ~LoopCond(ct.text, ct.i)
    /\ ct' = [ct EXCEPT !.pc = "return"]
    /\ UNCHANGED <<chunks, ing, qz, vd>>

(***************************************************************************)
(* JSON values as json.loads builds them.  Every value is a record of one  *)
(* shape: t is the Python type, s the characters of a str (or the digits   *)
(* of an int, or the key of a dict entry), items the elements of a list    *)
(* (or the entries of a dict, or the one value of a dict entry).           *)
(***************************************************************************)
JNull == [t |-> "null", s |-> <<>>, items |-> <<>>]

JStr(s) == [t |-> "str", s |-> s, items |-> <<>>]

JNum(digits) == [t |-> "int", s |-> digits, items |-> <<>>]

JBool(word) == [t |-> "bool", s |-> word, items |-> <<>>]

JList(items) == [t |-> "list", s |-> <<>>, items |-> items]

JPair(k, v) == [t |-> "pair", s |-> k, items |-> <<v>>]

JDict(pairs) == [t |-> "dict", s |-> <<>>, items |-> pairs]

\* d[k] = v on a dict: a repeated key keeps its place and takes the new value.
DictSet(pairs, k, v) ==
    IF \E i \in 1..Len(pairs) : pairs[i].s = k
    THEN [i \in 1..Len(pairs) |-> IF pairs[i].s = k THEN JPair(k, v) ELSE pairs[i]]
    ELSE Append(pairs, JPair(k, v))

\* k in d
HasKey(d, k) == \E i \in 1..Len(d.items) : d.items[i].s = k

\* d[k], for a key d has
Lookup(d, k) == d.items[CHOOSE i \in 1..Len(d.items) : d.items[i].s = k].items[1]

\* x in lst, by value
InList(x, lst) == \E i \in 1..Len(lst.items) : lst.items[i] = x

(***************************************************************************)
(* json.loads: the decoder's scanner over the characters.                  *)
(***************************************************************************)
Digits == {"0", "1", "2", "3", "4", "5", "6", "7", "8", "9"}

\* The character at 1-based position p, "" past the end.
At(s, p) == IF p \in 1..Len(s) THEN s[p] ELSE ""

\* The first position at or after p that holds no whitespace.
SkipWs(s, p) ==
    LET rest == {i \in p..Len(s) : ~IsSpace(s[i])}
    IN IF rest = {} THEN Max(Len(s) + 1, p) ELSE CHOOSE i \in rest : \A j \in rest : i <= j

NoParse == [ok |-> FALSE, val |-> JNull, pos |-> 0]

Parsed(v, p) == [ok |-> TRUE, val |-> v, pos |-> p]

\* A string: up to the next quote; a control character inside is an error.
ParseString(s, p) ==
    LET closes == {i \in (p + 1)..Len(s) : s[i] = "\""}
    IN IF At(s, p) # "\"" \/ closes = {} THEN NoParse
       ELSE LET close == CHOOSE i \in closes : \A j \in closes : i <= j
                body == SubSeq(s, p + 1, close - 1)
            IN IF \E i \in 1..Len(body) : body[i] \in {"\n", "\t"}
               THEN NoParse
               ELSE Parsed(JStr(body), close + 1)

\* An integer: 0, or a run of digits that does not start with 0.
ParseNumber(s, p) ==
    IF At(s, p) = "0" THEN Parsed(JNum(<<"0">>), p + 1)
    ELSE LET stops == {i \in p..(Len(s) + 1) : At(s, i) \notin Digits}
             stop == CHOOSE i \in stops : \A j \in stops : i <= j
         IN Parsed(JNum(SubSeq(s, p, stop - 1)), stop)

ParseWord(s, p, word, v) ==
    IF SubSeq(s, p, Min(Len(s), p + Len(word) - 1)) = word
    THEN Parsed(v, p + Len(word))
    ELSE NoParse

RECURSIVE ParseValue(_, _)
RECURSIVE ParseItems(_, _, _)
RECURSIVE ParseMembers(_, _, _)

\* The items of an array from position p, which holds the first character of one.
ParseItems(s, p, acc) ==
    LET v == ParseValue(s, p)
        q == SkipWs(s, v.pos)
    IN IF ~v.ok THEN NoParse
       ELSE IF At(s, q) = "]" THEN Parsed(JList(Append(acc, v.val)), q + 1)
       ELSE IF At(s, q) = "," THEN ParseItems(s, SkipWs(s, q + 1), Append(acc, v.val))
       ELSE NoParse

\* The members of an object from position p, which must hold a key's quote.
ParseMembers(s, p, acc) ==
    LET k == ParseString(s, p)
        colon == SkipWs(s, k.pos)
        v == ParseValue(s, SkipWs(s, colon + 1))
        q == SkipWs(s, v.pos)
    IN IF ~k.ok \/ At(s, colon) # ":" THEN NoParse
       ELSE IF ~v.ok THEN NoParse
       ELSE IF At(s, q) = "}" THEN Parsed(JDict(DictSet(acc, k.val.s, v.val)), q + 1)
       ELSE IF At(s, q) = ","
            THEN ParseMembers(s, SkipWs(s, q + 1), DictSet(acc, k.val.s, v.val))
       ELSE NoParse

ParseValue(s, p) ==
    LET c == At(s, p)
    IN CASE c = "\"" -> ParseString(s, p)
         [] c = "[" -> IF At(s, SkipWs(s, p + 1)) = "]"
                       THEN Parsed(JList(<<>>), SkipWs(s, p + 1) + 1)
                       ELSE ParseItems(s, SkipWs(s, p + 1), <<>>)
         [] c = "{" -> IF At(s, SkipWs(s, p + 1)) = "}"
                       THEN Parsed(JDict(<<>>), SkipWs(s, p + 1) + 1)
                       ELSE ParseMembers(s, SkipWs(s, p + 1), <<>>)
         [] c = "n" -> ParseWord(s, p, <<"n", "u", "l", "l">>, JNull)
         [] c = "t" -> ParseWord(s, p, <<"t", "r", "u", "e">>, JBool(<<"t", "r", "u", "e">>))
         [] c = "f" -> ParseWord(s, p, <<"f", "a", "l", "s", "e">>,
                                 JBool(<<"f", "a", "l", "s", "e">>))
         [] c \in Digits -> ParseNumber(s, p)
         [] OTHER -> NoParse

\* json.loads(s): one value, whitespace around it, nothing else.
json_loads(s) ==
    LET v == ParseValue(s, SkipWs(s, 1))
    IN IF v.ok /\ SkipWs(s, v.pos) = Len(s) + 1 THEN [ok |-> TRUE, val |-> v.val]
       ELSE [ok |-> FALSE, val |-> JNull]

(***************************************************************************)
(* generate_quiz: from the completion text to the response.                *)
(***************************************************************************)
\* What a request ends in: the HTTP status, the detail's fixed text, the text
\* interpolated into the detail, the item index it names (-1: none), the quiz.
Http(status, msg, payload, index) ==
    [status |-> status, msg |-> msg, payload |-> payload, index |-> index, quiz |-> JNull]

Returned(quiz) ==
    [status |-> 200, msg |-> "ok", payload |-> <<>>, index |-> -1, quiz |-> quiz]

Pending == [status |-> 0, msg |-> "", payload |-> <<>>, index |-> -1, quiz |-> JNull]

\* re.search(r"\[\s*\{.*\}\s*\]\s*$", raw, re.S): the 0-based start of the
\* leftmost match, -1 when there is none.  A match runs to the end of raw: its
\* tail is "}", whitespace, "]", whitespace; its head is "[", whitespace, "{"
\* with that "{" before the tail's "}".
RegexSearch(raw) ==
    LET solid == {i \in 1..Len(raw) : ~IsSpace(raw[i])}
        last == CHOOSE i \in solid : \A j \in solid : i >= j
        before == {i \in solid : i < last}
        brace == CHOOSE i \in before : \A j \in before : i >= j
        tailOk == /\ solid # {}
                  /\ raw[last] = "]"
                  /\ before # {}
                  /\ raw[brace] = "}"
        starts == {i \in 1..Len(raw) :
                     /\ raw[i] = "["
                     /\ At(raw, SkipWs(raw, i + 1)) = "{"
                     /\ SkipWs(raw, i + 1) < brace}
    IN IF tailOk /\ starts # {}
       THEN (CHOOSE i \in starts : \A j \in starts : i <= j) - 1
       ELSE -1

MsgNoArray == "No JSON array found in model output"

MsgInvalidJson == "Invalid JSON from model"

MsgNotArray == "Quiz is not a JSON array"

MsgNotObject == "is not an object"

MsgOptions == "must have 4 options"

MsgCorrect == "correct must match one option"

\* ExtractJson with the fallback's slice one character short: raw[start:end].
ExtractJsonShortSlice(raw) ==
    LET m == RegexSearch(raw)
        start == Find(raw, "[")
        end == RFind(raw, "]")
    IN IF m = -1
       THEN IF start = -1 \/ end = -1 \/ end <= start
            THEN [ok |-> FALSE, raw_json |-> <<>>, out |-> Http(500, MsgNoArray, raw, -1)]
            ELSE [ok |-> TRUE, raw_json |-> PySlice(raw, start, end), out |-> Pending]
       ELSE [ok |-> TRUE, raw_json |-> PyFrom(raw, m), out |-> Pending]

\* The text handed to json.loads, or the failure when no array is found.
ExtractJson(raw) ==
    LET m == RegexSearch(raw)
        start == Find(raw, "[")
        end == RFind(raw, "]")
    IN IF m = -1
       THEN IF start = -1 \/ end = -1 \/ end <= start
            THEN [ok |-> FALSE, raw_json |-> <<>>, out |-> Http(500, MsgNoArray, raw, -1)]
            ELSE [ok |-> TRUE, raw_json |-> PySlice(raw, start, end + 1), out |-> Pending]
       ELSE [ok |-> TRUE, raw_json |-> PyFrom(raw, m), out |-> Pending]

\* try: quiz = json.loads(raw_json)
LoadQuiz(raw_json) ==
    LET r == json_loads(raw_json)
    IN IF r.ok THEN [ok |-> TRUE, quiz |-> r.val, out |-> Pending]
       ELSE [ok |-> FALSE, quiz |-> JNull, out |-> Http(500, MsgInvalidJson, raw_json, -1)]

KeyOptions == <<"o", "p", "t", "i", "o", "n", "s">>

KeyCorrect == <<"c", "o", "r", "r", "e", "c", "t">>

\* The rule item q breaks, "" when none: the body of the validation loop.
ItemFault(q) ==
    IF q.t # "dict" THEN MsgNotObject
    ELSE IF \/ ~HasKey(q, KeyOptions)
            \/ Lookup(q, KeyOptions).t # "list"
            \/ Len(Lookup(q, KeyOptions).items) # 4
         THEN MsgOptions
    ELSE IF \/ ~HasKey(q, KeyCorrect)
            \/ ~InList(Lookup(q, KeyCorrect), Lookup(q, KeyOptions))
         THEN MsgCorrect
    ELSE ""

\* isinstance(quiz, list), the loop over enumerate(quiz), return {"quiz": quiz}
ValidateQuiz(quiz) ==
    IF quiz.t # "list" THEN Http(500, MsgNotArray, <<>>, -1)
    ELSE LET bad == {i \in 1..Len(quiz.items) : ItemFault(quiz.items[i]) # ""}
             first == CHOOSE i \in bad : \A j \in bad : i <= j
         IN IF bad = {} THEN Returned(quiz)
            ELSE Http(500, ItemFault(quiz.items[first]), <<>>, first - 1)

\* Lines 284 to 315 on one completion text.
HandleOutput(raw) ==
    LET e == ExtractJson(raw)
        l == LoadQuiz(e.raw_json)
    IN IF ~e.ok THEN e.out
       ELSE IF ~l.ok THEN l.out
       ELSE ValidateQuiz(l.quiz)

(***************************************************************************)
(* Completion texts.  The completion service may return any text; the ones *)
(* tried are a leading text, a body and a trailing text, where a body is a *)
(* serialized list of quiz items or a malformed text.                      *)
(***************************************************************************)
Quote == <<"\"">>

RECURSIVE Dump(_, _)
RECURSIVE DumpAll(_, _, _)

\* The values of items[i..], separated by a comma and sep.
DumpAll(items, sep, i) ==
    IF i > Len(items) THEN <<>>
    ELSE Dump(items[i], sep)
         \o (IF i = Len(items) THEN <<>> ELSE <<",">> \o sep \o DumpAll(items, sep, i + 1))

\* The JSON text of a value, with sep as the whitespace inside lists.
Dump(v, sep) ==
    CASE v.t = "str" -> Quote \o v.s \o Quote
      [] v.t = "int" -> v.s
      [] v.t = "bool" -> v.s
      [] v.t = "null" -> <<"n", "u", "l", "l">>
      [] v.t = "pair" -> Quote \o v.s \o Quote \o <<":">> \o Dump(v.items[1], sep)
      [] v.t = "dict" -> <<"{">> \o DumpAll(v.items, sep, 1) \o <<"}">>
      [] v.t = "list" -> IF v.items = <<>> THEN <<"[", "]">>
                         ELSE <<"[">> \o sep \o DumpAll(v.items, sep, 1) \o sep \o <<"]">>

OptA == JStr(<<"a">>)

OptB == JStr(<<"b">>)

OptC == JStr(<<"c">>)

OptD == JStr(<<"d">>)

OptE == JStr(<<"e">>)

KeyPage == <<"p", "a", "g", "e">>

QuizItem(opts, correct) ==
    JDict(<<JPair(KeyOptions, JList(opts)), JPair(KeyCorrect, correct)>>)

ItemGood ==
    JDict(<<JPair(KeyOptions, JList(<<OptA, OptB, OptC, OptD>>)),
            JPair(KeyCorrect, OptB),
            JPair(KeyPage, JNull)>>)

ItemRepeated == QuizItem(<<OptA, OptA, OptB, OptC>>, OptA)

ItemThree ==
    JDict(<<JPair(KeyOptions, JList(<<OptA, OptB, OptC>>)),
            JPair(KeyCorrect, OptA),
            JPair(KeyPage, JNum(<<"1", "2">>))>>)

ItemWrong == QuizItem(<<OptA, OptB, OptC, OptD>>, OptE)

ItemNoCorrect == JDict(<<JPair(KeyOptions, JList(<<OptA, OptB, OptC, OptD>>))>>)

ItemNotObject == OptA

Items == {ItemGood, ItemRepeated, ItemThree, ItemWrong, ItemNoCorrect, ItemNotObject}

Quizzes == {JList(q) : q \in SeqsUpTo(Items, MaxQuestions)}

Seps == {<<>>, <<"\n", " ">>}

\* Texts that are no serialized list: prose, brackets the wrong way round, a
\* truncated array, an object around a list.
Malformed ==
    {<<"n", "o">>,
     <<"]", "x", "[">>,
     <<"[", "{", "\"", "a", "\"", "]">>,
     <<"{", "\"", "a", "\"", ":", "[", "1", "]", "}">>}

\* A code-fence close marker on a line of its own.  The fence is written with
\* tildes: a TLA+ string cannot hold a backquote, and the code treats neither
\* character specially.
Fence == <<"\n", "~", "~", "~">>

Sentence == <<"H", "i", ":", " ">>

SentenceWithBracket == <<"Q", "[", "1", "]", ":", " ">>

Prefixes == {<<>>, Sentence, SentenceWithBracket}

Suffixes == {<<>>, Fence, <<" ", "\n">>}

\* A completion text with the parts it was put together from.
Completion(prefix, body, suffix, quiz) ==
    [raw |-> prefix \o body \o suffix, prefix |-> prefix, suffix |-> suffix, quiz |-> quiz]

Completions ==
    {Completion(p, Dump(q, sep), x, q) : p \in Prefixes, q \in Quizzes, sep \in Seps, x \in Suffixes}
    \cup {Completion(p, b, x, JNull) : p \in Prefixes, b \in Malformed, x \in Suffixes}

(***************************************************************************)
(* The output handling of generate_quiz on its own, a stage at a time.     *)
(***************************************************************************)
VdIdle ==
    [pc |-> "idle", raw |-> <<>>, gen |-> Completion(<<>>, <<>>, <<>>, JNull),
     num_questions |-> 1, raw_json |-> <<>>, quiz |-> JNull, out |-> Pending]

VdInputs ==
    {[VdIdle EXCEPT !.pc = "raw", !.raw = c.raw, !.gen = c, !.num_questions = n] :
        c \in Completions, n \in {1, MaxNumQuestions}}

\* Lines 286 to 296: the text to parse.
VdExtract ==
    /\ vd.pc = "raw"
    /\ LET e == ExtractJson(vd.raw)
       IN vd' = IF e.ok THEN [vd EXCEPT !.pc = "extracted", !.raw_json = e.raw_json]
                ELSE [vd EXCEPT !.pc = "done", !.out = e.out]
    /\ UNCHANGED <<chunks, ing, qz, ct>>

\* Lines 298 to 301: json.loads.
VdLoad ==
    /\ vd.pc = "extracted"
    /\ LET l == LoadQuiz(vd.raw_json)
       IN vd' = IF l.ok THEN [vd EXCEPT !.pc = "loaded", !.quiz = l.quiz]
                ELSE [vd EXCEPT !.pc = "done", !.out = l.out]
    /\ UNCHANGED <<chunks, ing, qz, ct>>

\* Lines 303 to 315: the checks and the response.
VdValidate ==
    /\ vd.pc = "loaded"
    /\ vd' = [vd EXCEPT !.pc = "done", !.out = ValidateQuiz(vd.quiz)]
    /\ UNCHANGED <<chunks, ing, qz, ct>>

(***************************************************************************)
(* The chunks table and the requests.                                      *)
(***************************************************************************)
Projects == {"p1", "p2"}

\* Embedding vectors the embedding service may return.
Vectors == {<<1, 0>>, <<0, 1>>}

\* IngestDocument values.  page is None or Some(n).
DocCell ==
    [title |-> "Cell Membranes", text |-> [i \in 1..3000 |-> "a"], page |-> Some(3)]

DocNote == [title |-> "Notes", text |-> <<"x", " ", " ", "y">>, page |-> None]

DocEmpty == [title |-> "Blank", text |-> <<>>, page |-> Some(12)]

AllDocs == {DocCell, DocNote, DocEmpty}

\* data.documents of the requests that run side by side: the first documents
\* of a fixed list.
DocOrder == <<DocNote, DocEmpty, DocCell>>

ShortLists == {SubSeq(DocOrder, 1, n) : n \in 0..Min(MaxDocs, Len(DocOrder))}

\* chunk_text's defaults.
DefaultSize == 1200

DefaultOverlap == 200

\* The LIMIT of generate_quiz's select.
RetrieveLimit == 10

IngIdle ==
    [pc |-> "idle", project_id |-> "p1", documents |-> <<>>, k |-> 0, tx |-> <<>>,
     status |-> 0]

\* DocChunks with the document split by chunk_text.
DocChunksWindows(doc) == chunk_text(doc.text, DefaultSize, DefaultOverlap)

\* chunks = [doc.text]
DocChunks(doc) == <<doc.text>>

\* str(uuid.uuid4()): a value no other insert gets.  It is written as the
\* request that made it and the number of rows the request had inserted.
Uuid(s, n) == <<s, n>>

\* The rows one document's loop over zip(chunks, vectors) inserts, by a request
\* that has inserted n rows so far.
InsertRows(s, n, project_id, doc, texts, vectors) ==
    [j \in 1..Min(Len(texts), Len(vectors)) |->
        [project_id |-> project_id,
         doc_id     |-> Uuid(s, n + j),
         doc_title  |-> doc.title,
         page       |-> doc.page,
         chunk_text |-> texts[j],
         embedding  |-> vectors[j]]]

\* The table after db.commit() of a session whose pending inserts are tx.
Committed(store, tx) == store \o tx

\* RolledBack with the pending inserts left in the table.
RolledBackKeepsWrites(store, tx) == store \o tx

\* The table after db.rollback() of a session whose pending inserts are tx.
RolledBack(store, tx) == store

\* embed_texts(texts): one vector per text, in order.
EmbedResults(texts) == [1..Len(texts) -> Vectors]

\* db = SessionLocal(); try: (a request arrives)
IngestBegin(s, lists) ==
    /\ ing[s].pc = "idle"
    /\ \E pid \in Projects, ds \in lists :
          ing' = [ing EXCEPT ![s] = [IngIdle EXCEPT !.pc = "loop", !.project_id = pid,
                                                    !.documents = ds]]
    /\ UNCHANGED <<chunks, qz, ct, vd>>

\* One turn of the loop over data.documents: embed, then insert in the
\* session's transaction.
IngestDoc(s) ==
    /\ ing[s].pc = "loop"
    /\ ing[s].k < Len(ing[s].documents)
    /\ LET doc == ing[s].documents[ing[s].k + 1]
           texts == DocChunks(doc)
       IN \E vectors \in EmbedResults(texts) :
             ing' = [ing EXCEPT ![s].k = @ + 1,
                                ![s].tx = @ \o InsertRows(s, Len(ing[s].tx), ing[s].project_id,
                                                          doc, texts, vectors)]
    /\ UNCHANGED <<chunks, qz, ct, vd>>

\* embed_texts or the insert raises in a turn of the loop: except, rollback, 500.
IngestDocFail(s) ==
    /\ ing[s].pc = "loop"
    /\ ing[s].k < Len(ing[s].documents)
    /\ chunks' = RolledBack(chunks, ing[s].tx)
    /\ ing' = [ing EXCEPT ![s].pc = "done", ![s].tx = <<>>, ![s].status = 500]
    /\ UNCHANGED <<qz, ct, vd>>

\* The loop is over: db.commit() and return {"status": "ok"}.
IngestCommit(s) ==
    /\ ing[s].pc = "loop"
    /\ ing[s].k = Len(ing[s].documents)
    /\ chunks' = Committed(chunks, ing[s].tx)
    /\ ing' = [ing EXCEPT ![s].pc = "done", ![s].tx = <<>>, ![s].status = 200]
    /\ UNCHANGED <<qz, ct, vd>>

\* db.commit() raises: except, rollback, 500.
IngestCommitFail(s) ==
    /\ ing[s].pc = "loop"
    /\ ing[s].k = Len(ing[s].documents)
    /\ chunks' = RolledBack(chunks, ing[s].tx)
    /\ ing' = [ing EXCEPT ![s].pc = "done", ![s].tx = <<>>, ![s].status = 500]
    /\ UNCHANGED <<qz, ct, vd>>

(***************************************************************************)
(* generate_quiz                                                           *)
(***************************************************************************)
QuizRequests ==
    {[num_questions |-> n, language |-> "English", difficulty |-> "medium",
      group_by_macro_topics |-> FALSE, answers_at_end |-> FALSE] : n \in {1, MaxNumQuestions}}

QzIdle ==
    [pc |-> "idle", project_id |-> "p1", req |-> CHOOSE r \in QuizRequests : TRUE,
     rows |-> <<>>, context |-> <<>>, calls |-> 0, out |-> Pending]

Range(f) == {f[i] : i \in DOMAIN f}

\* The sequences of n different elements of S.
RECURSIVE Arrangements(_, _)
Arrangements(S, n) ==
    IF n = 0 THEN {<<>>}
    ELSE UNION {{Append(a, x) : x \in S \ Range(a)} : a \in Arrangements(S, n - 1)}

\* Matching without the where clause.
MatchingAnyProject(store, pid) == 1..Len(store)

\* where project_id = :pid
Matching(store, pid) == {i \in 1..Len(store) : store[i].project_id = pid}

\* select doc_title, coalesce(page, null) as page, chunk_text: the columns of
\* row i of the table; rowid says which stored row it is and is no column.
RowOf(store, i) ==
    [rowid |-> i, doc_title |-> store[i].doc_title, page |-> store[i].page,
     chunk_text |-> store[i].chunk_text]

\* The results the select may give: it has a limit and no ORDER BY, so any
\* RetrieveLimit of the matching rows (all, when there are fewer) in any order.
SelectRows(store, pid) ==
    LET match == Matching(store, pid)
    IN {[j \in 1..Len(a) |-> RowOf(store, a[j])] :
           a \in Arrangements(match, Min(RetrieveLimit, Cardinality(match)))}

\* NoMaterial with the check left out.
NoMaterialNever(rows) == FALSE

\* if not rows
NoMaterial(rows) == rows = <<>>

DigitChars == <<"0", "1", "2", "3", "4", "5", "6", "7", "8", "9">>

\* str(n) of an int
RECURSIVE IntStr(_)
IntStr(n) ==
    IF n < 0 THEN <<"-">> \o IntStr(-n)
    ELSE IF n < 10 THEN <<DigitChars[n + 1]>>
    ELSE IntStr(n \div 10) \o <<DigitChars[(n % 10) + 1]>>

\* page_str = "unknown" if page is None else str(page)
PageStr(page) ==
    IF page = None THEN <<"u", "n", "k", "n", "o", "w", "n">> ELSE IntStr(page[1])

\* f"[SOURCE: {title} | PAGE: {page_str}]\n{text_}", as the values it holds
ContextPart(row) ==
    [source |-> row.doc_title, page |-> PageStr(row.page), text |-> row.chunk_text]

\* BuildContext with the parts in reverse.
BuildContextReversed(rows) == [i \in 1..Len(rows) |-> ContextPart(rows[Len(rows) + 1 - i])]

\* context_parts, in the order of the loop over rows; "\n\n".join keeps it.
BuildContext(rows) == [i \in 1..Len(rows) |-> ContextPart(rows[i])]

MsgNoMaterial == "No study material found"

MsgUpstream == "completion service error"

\* The completions the service is seen to return to a request.
ServiceCompletions ==
    {Completion(Sentence, Dump(JList(<<ItemGood>>), <<>>), Fence, JList(<<ItemGood>>)),
     Completion(<<>>, <<"n", "o">>, <<>>, JNull)}

\* db = SessionLocal(); the select; if not rows: 400; the context.
QuizSelect(q) ==
    /\ qz[q].pc = "idle"
    /\ \E pid \in Projects, req \in QuizRequests :
       \E rows \in SelectRows(chunks, pid) :
          qz' = [qz EXCEPT ![q] =
                   IF NoMaterial(rows)
                   THEN [QzIdle EXCEPT !.pc = "done", !.project_id = pid, !.req = req,
                                       !.rows = rows,
                                       !.out = Http(400, MsgNoMaterial, <<>>, -1)]
                   ELSE [QzIdle EXCEPT !.pc = "prompted", !.project_id = pid, !.req = req,
                                       !.rows = rows, !.context = BuildContext(rows)]]
    /\ UNCHANGED <<chunks, ing, ct, vd>>

\* client.chat.completions.create returns; the text is handled and answered.
QuizComplete(q) ==
    /\ qz[q].pc = "prompted"
    /\ \E c \in ServiceCompletions :
          qz' = [qz EXCEPT ![q].pc = "done", ![q].calls = @ + 1,
                           ![q].out = HandleOutput(c.raw)]
    /\ UNCHANGED <<chunks, ing, ct, vd>>

\* client.chat.completions.create raises: except Exception, 500 with str(e).
QuizCompleteFail(q) ==
    /\ qz[q].pc = "prompted"
    /\ qz' = [qz EXCEPT ![q].pc = "done", ![q].calls = @ + 1,
                        ![q].out = Http(500, MsgUpstream, <<>>, -1)]
    /\ UNCHANGED <<chunks, ing, ct, vd>>

(***************************************************************************)
(* Specifications.                                                         *)
(***************************************************************************)
IngestSlots == 1..MaxIngest

QuizSlots == 1..MaxQuiz

ServerIdle ==
    /\ chunks = <<>>
    /\ ing = [s \in IngestSlots |-> IngIdle]
    /\ qz = [q \in QuizSlots |-> QzIdle]

\* The server: ingest and generate_quiz requests running side by side.
Init ==
    /\ ServerIdle
    /\ ct = CtIdle
    /\ vd = VdIdle

Next ==
    \/ \E s \in IngestSlots : IngestBegin(s, ShortLists)
    \/ \E s \in IngestSlots : IngestDoc(s)
    \/ \E s \in IngestSlots : IngestDocFail(s)
    \/ \E s \in IngestSlots : IngestCommit(s)
    \/ \E s \in IngestSlots : IngestCommitFail(s)
    \/ \E q \in QuizSlots : QuizSelect(q)
    \/ \E q \in QuizSlots : QuizComplete(q)
    \/ \E q \in QuizSlots : QuizCompleteFail(q)

Spec == Init /\ [][Next]_vars

\* One ingest request over documents of any size.
InitIngest ==
    /\ ServerIdle
    /\ ct = CtIdle
    /\ vd = VdIdle

NextIngest ==
    \/ IngestBegin(1, SeqsUpTo(AllDocs, MaxDocs))
    \/ IngestDoc(1)
    \/ IngestDocFail(1)
    \/ IngestCommit(1)
    \/ IngestCommitFail(1)

SpecIngest == InitIngest /\ [][NextIngest]_vars

\* The output handling over every completion text.
InitQuiz ==
    /\ ServerIdle
    /\ ct = CtIdle
    /\ vd \in VdInputs

NextQuiz == VdExtract \/ VdLoad \/ VdValidate

SpecQuiz == InitQuiz /\ [][NextQuiz]_vars

\* One call of chunk_text.
InitChunk ==
    /\ ServerIdle
    /\ vd = VdIdle
    /\ ct \in CtCalls

NextChunk == CtNormalize \/ CtAppend \/ CtReturn

SpecChunk == InitChunk /\ [][NextChunk]_vars

(***************************************************************************)
(* Properties.                                                             *)
(***************************************************************************)
\* The options of a returned item, as a set, and its correct value.
OptionSet(item) == Range(Lookup(item, KeyOptions).items)

\* A quiz the data model calls valid: a non-empty list of objects, each with
\* 4 pairwise different options and a correct value among them.
ValidItem(item) ==
    /\ item.t = "dict"
    /\ HasKey(item, KeyOptions)
    /\ HasKey(item, KeyCorrect)
    /\ Lookup(item, KeyOptions).t = "list"
    /\ Len(Lookup(item, KeyOptions).items) = 4
    /\ Cardinality(OptionSet(item)) = 4
    /\ Lookup(item, KeyCorrect) \in OptionSet(item)

ValidQuizValue(quiz) ==
    /\ quiz.t = "list"
    /\ Len(quiz.items) >= 1
    /\ \A i \in 1..Len(quiz.items) : ValidItem(quiz.items[i])

\* C1: every quiz generate_quiz returns has, in every question, the correct
\* value among the options and exactly 4 pairwise different options.
C1_ReturnedQuizValid ==
    (vd.pc = "done" /\ vd.out.status = 200) =>
        \A i \in 1..Len(vd.out.quiz.items) :
            /\ Lookup(vd.out.quiz.items[i], KeyCorrect) \in OptionSet(vd.out.quiz.items[i])
            /\ Cardinality(OptionSet(vd.out.quiz.items[i])) = 4

\* C7: a completion that parses to a quiz of 0 questions ends in a failure
\* and returns no quiz; one that parses to a valid quiz of at least one and
\* fewer than num_questions questions is returned.
C7_EmptyQuizRejected ==
    (vd.pc = "done" /\ vd.quiz.t = "list") =>
        /\ Len(vd.quiz.items) = 0 => (vd.out.status # 200 /\ vd.out.quiz = JNull)
        /\ (ValidQuizValue(vd.quiz) /\ Len(vd.quiz.items) < vd.num_questions)
              => vd.out = Returned(vd.quiz)

\* The longest snippet of the completion a diagnostic is to hold.
SnippetLimit == 8

\* C8: when the completion cannot be parsed (no array found, or the
\* substring is no JSON), the detail holds a snippet of the raw output no
\* longer than a fixed limit, whatever the length of the raw output.
C8_BoundedSnippet ==
    (vd.pc = "done" /\ vd.out.msg \in {MsgNoArray, MsgInvalidJson}) =>
        Len(vd.out.payload) <= SnippetLimit

\* C10 as stated: a valid quiz array after a leading sentence and before a
\* closing code fence is extracted, parsed and returned as it is.
C10_AnyLeadingSentence ==
    (/\ vd.pc = "done"
     /\ vd.gen.prefix # <<>>
     /\ vd.gen.suffix = Fence
     /\ ValidQuizValue(vd.gen.quiz)) => vd.out = Returned(vd.gen.quiz)

\* C10, amended: a valid quiz array after a leading sentence that holds no
\* opening bracket and before a closing code fence is extracted (first "["
\* to last "]"), parsed and returned as it is.
C10_FenceRecovered ==
    (/\ vd.pc = "done"
     /\ vd.gen.prefix # <<>>
     /\ Find(vd.gen.prefix, "[") = -1
     /\ vd.gen.suffix = Fence
     /\ ValidQuizValue(vd.gen.quiz)) => vd.out = Returned(vd.gen.quiz)

C10_Witness ==
    /\ vd.pc = "done"
    /\ vd.gen.prefix = Sentence
    /\ vd.gen.suffix = Fence
    /\ ValidQuizValue(vd.gen.quiz)
    /\ Len(vd.gen.quiz.items) = 2
    /\ RegexSearch(vd.raw) = -1
    /\ vd.out.status = 200

\* C9: a call of chunk_text with overlap >= size is refused: it neither
\* enters the window loop nor returns a list of chunks.
C9_OverlapRefused == ct.overlap >= ct.size => ct.pc \notin {"loop", "return"}

\* The committed rows a request's inserts made, in table order.
RowsOf(s) == SelectSeq(chunks, LAMBDA r : r.doc_id[1] = s)

\* What a stored row carries of its document.
Stored(title, page, text) == [doc_title |-> title, page |-> page, chunk_text |-> text]

StoredOf(s) ==
    [i \in 1..Len(RowsOf(s)) |->
        Stored(RowsOf(s)[i].doc_title, RowsOf(s)[i].page, RowsOf(s)[i].chunk_text)]

\* One row per window of chunk_text(text, 1200, 200), for each document in turn.
RECURSIVE WindowRows(_, _)
WindowRows(docs, j) ==
    IF j > Len(docs) THEN <<>>
    ELSE LET w == chunk_text(docs[j].text, DefaultSize, DefaultOverlap)
         IN [i \in 1..Len(w) |-> Stored(docs[j].title, docs[j].page, w[i])]
            \o WindowRows(docs, j + 1)

\* One row per document, holding the document's whole text.
WholeRows(docs) == [j \in 1..Len(docs) |-> Stored(docs[j].title, docs[j].page, docs[j].text)]

Succeeded(s) == ing[s].pc = "done" /\ ing[s].status = 200

RECURSIVE RowCount(_, _)
RowCount(docs, j) ==
    IF j > Len(docs) THEN 0 ELSE Len(DocChunks(docs[j])) + RowCount(docs, j + 1)

\* C4: of an ingest call the table holds every chunk of every document once
\* the call has committed, and none at any other time: not while it runs, and
\* not after it failed at a later document; the rows a quiz request read are
\* all of committed calls.
C4_AllOrNothing ==
    /\ \A s \in IngestSlots :
          IF Succeeded(s)
          THEN Len(RowsOf(s)) = RowCount(ing[s].documents, 1)
          ELSE RowsOf(s) = <<>>
    /\ \A q \in QuizSlots : \A i \in 1..Len(qz[q].rows) :
          /\ qz[q].rows[i].rowid \in 1..Len(chunks)
          /\ Succeeded(chunks[qz[q].rows[i].rowid].doc_id[1])

C4_Witness ==
    \E s, t \in IngestSlots :
        /\ ing[s].pc = "done" /\ ing[s].status = 500 /\ ing[s].k >= 1
        /\ Succeeded(t) /\ Len(ing[t].documents) = 2 /\ ing[t].project_id = ing[s].project_id
        /\ \E q \in QuizSlots : Len(qz[q].rows) = 2

\* C2: every row a quiz request retrieved is a stored chunk of the request's
\* project, and every part of its prompt context is made from such a chunk.
C2_ProjectScoped ==
    \A q \in QuizSlots :
        /\ \A i \in 1..Len(qz[q].rows) :
              /\ qz[q].rows[i].rowid \in 1..Len(chunks)
              /\ chunks[qz[q].rows[i].rowid].project_id = qz[q].project_id
              /\ qz[q].rows[i] = RowOf(chunks, qz[q].rows[i].rowid)
        /\ \A i \in 1..Len(qz[q].context) :
              \E r \in 1..Len(chunks) :
                  /\ chunks[r].project_id = qz[q].project_id
                  /\ qz[q].context[i] = ContextPart(RowOf(chunks, r))

C2_Witness ==
    \E q \in QuizSlots :
        /\ qz[q].pc = "done"
        /\ qz[q].rows # <<>>
        /\ qz[q].context # <<>>
        /\ \E i \in 1..Len(chunks) : chunks[i].project_id # qz[q].project_id

\* C3: a quiz request that finds no chunk of its project (as it must when
\* the project has none) ends with status 400, which no other failure of the
\* request gives, and makes no call to the completion service.
C3_NoMaterialNoCall ==
    \A q \in QuizSlots :
        qz[q].pc # "idle" =>
            /\ (\A i \in 1..Len(chunks) : chunks[i].project_id # qz[q].project_id)
                  => qz[q].rows = <<>>
            /\ qz[q].rows = <<>> =>
                  /\ qz[q].pc = "done"
                  /\ qz[q].out.status = 400
                  /\ qz[q].out.msg = MsgNoMaterial
                  /\ qz[q].calls = 0
            /\ (qz[q].rows # <<>> /\ qz[q].pc = "done") =>
                  (qz[q].out.status \in {200, 500} /\ qz[q].calls = 1)

C3_Witness ==
    \E q \in QuizSlots :
        /\ qz[q].pc = "done"
        /\ \A i \in 1..Len(chunks) : chunks[i].project_id # qz[q].project_id
        /\ chunks # <<>>
        /\ qz[q].out.status = 400
        /\ qz[q].calls = 0

\* The query vector of the retrieval the specification describes, and the
\* distance of a stored row from it.
QueryVector == <<1, 0>>

Distance(v, w) == (v[1] - w[1]) * (v[1] - w[1]) + (v[2] - w[2]) * (v[2] - w[2])

RowDistance(row) == Distance(chunks[row.rowid].embedding, QueryVector)

\* The prompt context holds the retrieved rows, one part per row, in order.
ContextInRowOrder(q) ==
    qz[q].rows # <<>> =>
        /\ Len(qz[q].context) = Len(qz[q].rows)
        /\ \A i \in 1..Len(qz[q].rows) : qz[q].context[i] = ContextPart(qz[q].rows[i])

====
